---------------------------- MODULE Spec2Model ----------------------------
(***************************************************************************)
(* StructlogProcessor (logbull/handlers/structlog.py) together with the    *)
(* delivery pipeline it feeds (LogSender: bounded queue, batching worker,  *)
(* retry, shutdown).  The processor is translated from the source; the     *)
(* LogSender, the validator, the formatter and the timestamp generator are *)
(* modelled from their contracts.                                          *)
(*                                                                         *)
(* __call__ is split at the points where another thread can run between    *)
(* two of its statements that matter to the shared state: entry/validation *)
(* (CallBegin), timestamp generation (CallStamp), formatting and hand-over *)
(* to the sender (CallEnqueue).                                            *)
(***************************************************************************)
EXTENDS Integers, Sequences, FiniteSets, TLC

\* ------------------------------------------------------------- bounds
MaxCalls == 3
Capacity == 2
BatchMax == 2
MaxRetry == 1

Threads == {"t1", "t2"}

\* ------------------------------------------------------------- values
None == "None"

\* Python values are strings here; a member of NonStrings stands for a value
\* that is not a str (it has no .upper()).
NonStrings == {"int:7"}

\* str.upper() on the level names that occur.
Upper(s) ==
    CASE s = "info" -> "INFO"
      [] s = "error" -> "ERROR"
      [] s = "bogus" -> "BOGUS"
      [] OTHER -> s

\* dict.get(key, default)
Get(d, key, default) == IF key \in DOMAIN d THEN d[key] ELSE default

\* The (name, event_dict) pairs __call__ is invoked with.
Inputs ==
    << [name |-> "test_logger",
        event_dict |-> [event |-> "Test message", level |-> "error",
                        custom_field |-> "value", logger_name |-> "theirs",
                        timestamp |-> "t0"]],
       [name |-> "",
        event_dict |-> [event |-> "no level"]],
       [name |-> "",
        event_dict |-> [event |-> "bad level", level |-> "int:7"]],
       [name |-> "test_logger",
        event_dict |-> [event |-> "", level |-> "info"]] >>

\* The constructor's arguments.
ProjectIds == {None, "12345678-1234-1234-1234-123456789012", "not-a-uuid"}
Hosts == {None, "http://localhost:4005", "localhost"}
ApiKeys == {None, "test_api_key"}

VARIABLES
    \* StructlogProcessor
    phase,          \* "uninit" | "ready" | "failed" (constructor raised)
    args,           \* the constructor's arguments
    disabled,       \* self.disabled
    sender,         \* self.sender: None or "LogSender"
    config,         \* self.config
    \* threads inside __call__
    pc,             \* per thread: "idle" | "validated" | "stamped"
    cur,            \* per thread: the locals of its running __call__
    clock,          \* last value of _generate_unique_nanosecond_timestamp
    \* LogSender
    sendersCreated, \* number of LogSender objects constructed
    pipelineState,  \* "Uninitialized" | "Running" | "Draining" | "Stopped"
    queue,          \* bounded queue of log entries
    inflight,       \* the batch the worker is sending
    attempts,       \* failed attempts of the in-flight batch
    flushReq,       \* an explicit flush request is pending
    delivered,      \* timestamps of the entries the transport delivered, in order
    droppedCount,   \* overflow evictions
    failedCount,    \* entries of discarded batches
    netCalls,       \* a transport call has been made
    \* history
    calls,          \* __call__ invocations begun
    okCalls,        \* returned calls of a valid event in which no step raised
    handed,         \* per add_log_to_queue call, in order: the entry's timestamp
                    \* and how many such calls its __call__ saw made at entry
    enqueued,       \* timestamps of the entries given to a Running queue, in order
    lost,           \* timestamps of entries evicted or discarded
    diag,           \* diagnostics printed by __call__'s except clause
    raised,         \* a public operation raised to its caller
    passThrough,    \* every __call__ so far returned its event_dict unchanged
    senderOps,      \* a method of a sender object was called
    flushed,        \* flush() has been invoked
    swallowed,      \* flush or close swallowed an exception of the sender
    closeCalls      \* close() invocations: 0, 1, 2 (two or more)

procVars == <<phase, args, disabled, sender, config, sendersCreated>>
threadVars == <<pc, cur, clock>>
queueVars == <<queue, droppedCount, enqueued, lost>>
workerVars == <<inflight, attempts, delivered, failedCount, netCalls>>
callHist == <<calls, okCalls, handed, diag, passThrough>>
opHist == <<senderOps, flushed, swallowed, closeCalls>>
vars == <<phase, args, disabled, sender, config, sendersCreated, pc, cur, clock,
          pipelineState, queue, inflight, attempts, flushReq, delivered,
          droppedCount, failedCount, netCalls, calls, okCalls,
          handed, enqueued, lost, diag, raised, passThrough, senderOps,
          flushed, swallowed, closeCalls>>

NoCall == [input |-> 0, event_dict |-> <<>>, validated |-> <<>>, ts |-> 0,
           seen |-> 0]

Init ==
    /\ phase = "uninit"
    /\ args = [project_id |-> None, host |-> None, api_key |-> None]
    /\ disabled = FALSE
    /\ sender = None
    /\ config = <<>>
    /\ sendersCreated = 0
    /\ pc = [t \in Threads |-> "idle"]
    /\ cur = [t \in Threads |-> NoCall]
    /\ clock = 0
    /\ pipelineState = "Uninitialized"
    /\ queue = <<>>
    /\ inflight = <<>>
    /\ attempts = 0
    /\ flushReq = FALSE
    /\ delivered = <<>>
    /\ droppedCount = 0
    /\ failedCount = 0
    /\ netCalls = FALSE
    /\ calls = 0
    /\ okCalls = 0
    /\ handed = <<>>
    /\ enqueued = <<>>
    /\ lost = {}
    /\ diag = 0
    /\ raised = FALSE
    /\ passThrough = TRUE
    /\ senderOps = FALSE
    /\ flushed = FALSE
    /\ swallowed = FALSE
    /\ closeCalls = 0


\* ------------------------------------------------------- construction

DisabledBatchSize == 1000

\* LogValidator.validate_config: rejects a project_id that is not a UUID and a
\* host that is not a URL; fills in the batch size.
ValidateConfig(project_id, host, api_key) ==
    IF project_id = "not-a-uuid" \/ host = "localhost"
    THEN [ok |-> FALSE]
    ELSE [ok |-> TRUE, project_id |-> project_id, host |-> host,
          api_key |-> api_key, batch_size |-> BatchMax]

\* A plausible slip: the processor is disabled only when both are missing.
IsDisabledBothMissing(project_id, host) == project_id = None /\ host = None

\* self.disabled = project_id is None or host is None
IsDisabled(project_id, host) == project_id = None \/ host = None

\* LogSender(config): the pipeline starts Running with its worker started.
NewLogSender ==
    /\ sendersCreated' = sendersCreated + 1
    /\ pipelineState' = "Running"

\* StructlogProcessor.__init__
Construct(project_id, host, api_key) ==
    /\ phase = "uninit"
    /\ args' = [project_id |-> project_id, host |-> host, api_key |-> api_key]
    /\ IF IsDisabled(project_id, host)
       THEN /\ disabled' = TRUE
            /\ config' = [project_id |-> "", host |-> "", api_key |-> None,
                          batch_size |-> DisabledBatchSize]
            /\ sender' = None
            /\ phase' = "ready"
            /\ UNCHANGED <<sendersCreated, pipelineState>>
       ELSE LET validated_config == ValidateConfig(project_id, host, api_key) IN
            IF project_id = None \/ host = None \/ ~validated_config.ok
            THEN \* an assert or validate_config raised: no object is built
                 /\ phase' = "failed"
                 /\ UNCHANGED <<disabled, config, sender, sendersCreated,
                                pipelineState>>
            ELSE /\ disabled' = FALSE
                 /\ config' = [project_id |-> validated_config.project_id,
                               host |-> validated_config.host,
                               api_key |-> validated_config.api_key,
                               batch_size |-> validated_config.batch_size]
                 /\ sender' = "LogSender"
                 /\ phase' = "ready"
                 /\ NewLogSender
    /\ UNCHANGED <<threadVars, queueVars, workerVars, callHist, flushReq,
                   raised, opHist>>

\* ------------------------------------------------- collaborators of __call__

\* LogValidator.validate_log_entry: a record with an empty message or an
\* unknown level is rejected (ok is FALSE: the call raises); otherwise the
\* normalised values are returned.
Levels == {"INFO", "ERROR"}

ValidateLogEntry(level, message, fields) ==
    [ok |-> level \in Levels /\ message # "",
     level |-> level, message |-> message, fields |-> fields]

\* _generate_unique_nanosecond_timestamp: strictly greater than every value it
\* returned before (taken under the generator's lock).
GenerateUniqueNanosecondTimestamp == clock + 1

\* LogFormatter.format_log_entry: the wire-ready record; timestamp is the
\* rendering of timestamp_ns, which keeps its order.
FormatLogEntry(level, message, fields, timestamp_ns) ==
    [level |-> level, message |-> message, timestamp |-> timestamp_ns,
     fields |-> fields]

\* ------------------------------------------------------------ LogSender

\* A slip in the queue: a full queue rejects the new record instead of evicting
\* the oldest.
AddLogToQueueRejectNew(log_entry) ==
    IF pipelineState # "Running"
    THEN UNCHANGED queueVars
    ELSE IF Len(queue) >= Capacity
         THEN /\ droppedCount' = droppedCount + 1
              /\ lost' = lost \cup {log_entry.timestamp}
              /\ enqueued' = Append(enqueued, log_entry.timestamp)
              /\ UNCHANGED queue
         ELSE /\ queue' = Append(queue, log_entry)
              /\ enqueued' = Append(enqueued, log_entry.timestamp)
              /\ UNCHANGED <<droppedCount, lost>>

\* LogSender.add_log_to_queue (enqueue): a no-op unless Running; a full queue
\* evicts its head (drop-oldest) and counts the eviction.
AddLogToQueue(log_entry) ==
    IF pipelineState # "Running"
    THEN UNCHANGED queueVars
    ELSE IF Len(queue) >= Capacity
         THEN /\ queue' = Append(Tail(queue), log_entry)
              /\ droppedCount' = droppedCount + 1
              /\ lost' = lost \cup {Head(queue).timestamp}
              /\ enqueued' = Append(enqueued, log_entry.timestamp)
         ELSE /\ queue' = Append(queue, log_entry)
              /\ enqueued' = Append(enqueued, log_entry.timestamp)
              /\ UNCHANGED <<droppedCount, lost>>

\* LogSender.flush: asks the worker for an immediate cut of what is queued.
SenderFlush ==
    flushReq' = IF pipelineState = "Running" /\ queue # <<>> THEN TRUE ELSE flushReq

\* LogSender.shutdown: Running -> Draining; a no-op in every other state.
SenderShutdown ==
    pipelineState' = IF pipelineState = "Running" THEN "Draining" ELSE pipelineState

Min(a, b) == IF a <= b THEN a ELSE b

\* The worker cuts the next batch: up to batch_max_count records from the head.
WorkerCut ==
    /\ pipelineState \in {"Running", "Draining"}
    /\ inflight = <<>>
    /\ queue # <<>>
    /\ LET n == Min(BatchMax, Len(queue)) IN
       /\ inflight' = SubSeq(queue, 1, n)
       /\ queue' = SubSeq(queue, n + 1, Len(queue))
       /\ flushReq' = (flushReq /\ n < Len(queue))
    /\ attempts' = 0
    /\ UNCHANGED <<procVars, threadVars, pipelineState, delivered, droppedCount,
                   failedCount, netCalls, callHist, enqueued, lost, raised,
                   opHist>>

TransportResults == {"success", "retryable_failure", "fatal_failure"}

\* A slip in the worker: a retryable failure is retried without counting it.
RetryAllowedAlways(result) == result = "retryable_failure"

\* A failed attempt is retried while fewer than max_retry_attempts have failed
\* and the pipeline is not shutting down; a fatal failure is never retried.
RetryAllowed(result) ==
    /\ result = "retryable_failure"
    /\ attempts < MaxRetry
    /\ pipelineState = "Running"

\* The worker submits the in-flight batch to the transport.
WorkerSend(result) ==
    /\ inflight # <<>>
    /\ netCalls' = TRUE
    /\ IF result = "success"
       THEN /\ delivered' = delivered \o [k \in DOMAIN inflight |-> inflight[k].timestamp]
            /\ inflight' = <<>>
            /\ attempts' = 0
            /\ UNCHANGED <<failedCount, lost>>
       ELSE IF RetryAllowed(result)
            THEN /\ attempts' = attempts + 1
                 /\ UNCHANGED <<inflight, delivered, failedCount, lost>>
            ELSE /\ failedCount' = failedCount + Len(inflight)
                 /\ lost' = lost \cup {inflight[k].timestamp : k \in DOMAIN inflight}
                 /\ inflight' = <<>>
                 /\ attempts' = 0
                 /\ UNCHANGED delivered
    /\ UNCHANGED <<procVars, threadVars, pipelineState, queue, droppedCount,
                   enqueued, flushReq, callHist, raised, opHist>>

\* The worker exits once the shutdown's final flush has emptied the pipeline.
WorkerStop ==
    /\ pipelineState = "Draining"
    /\ queue = <<>>
    /\ inflight = <<>>
    /\ pipelineState' = "Stopped"
    /\ flushReq' = FALSE
    /\ UNCHANGED <<procVars, threadVars, queueVars, workerVars, callHist, raised,
                   opHist>>

\* --------------------------------------------- StructlogProcessor.__call__

ReservedKeys == {"level", "event", "timestamp"}

\* A slip: the guard at the top of __call__ is missing.
CallGuardMissing == FALSE

\* if self.disabled or self.sender is None: return event_dict
CallGuard == disabled \/ sender = None

\* A slip: logger_name is written into event_dict itself.
ExtractFieldsInPlace(event_dict, name) ==
    LET ed == IF name # ""
              THEN [k \in DOMAIN event_dict \cup {"logger_name"} |->
                      IF k = "logger_name" THEN name ELSE event_dict[k]]
              ELSE event_dict
    IN [event_dict |-> ed,
        fields |-> [k \in DOMAIN ed \ ReservedKeys |-> ed[k]]]

\* fields = every non-reserved key of event_dict, plus logger_name when name
\* is non-empty; the result holds both mappings as they are afterwards.
ExtractFields(event_dict, name) ==
    LET fields == [k \in DOMAIN event_dict \ ReservedKeys |-> event_dict[k]]
    IN [event_dict |-> event_dict,
        fields |-> IF name # ""
                   THEN [k \in DOMAIN fields \cup {"logger_name"} |->
                           IF k = "logger_name" THEN name ELSE fields[k]]
                   ELSE fields]

\* The event of Inputs[i] gets through extraction and validation.
InputValid(i) ==
    LET event_dict == Inputs[i].event_dict IN
    /\ Get(event_dict, "level", "info") \notin NonStrings
    /\ ValidateLogEntry(Upper(Get(event_dict, "level", "info")),
                        Get(event_dict, "event", ""),
                        ExtractFields(event_dict, Inputs[i].name).fields).ok

\* A slip: the except clause re-raises after printing.
CallExceptReraise ==
    /\ diag' = diag + 1
    /\ raised' = TRUE

\* except Exception as e: print(...)
CallExcept ==
    /\ diag' = diag + 1
    /\ raised' = raised

\* return event_dict
Return(t, call) ==
    /\ passThrough' = (passThrough /\ call.event_dict = Inputs[call.input].event_dict)
    /\ pc' = [pc EXCEPT ![t] = "idle"]
    /\ cur' = [cur EXCEPT ![t] = NoCall]

\* A slip: a record that failed validation is carried on to the queue.
ValidationPassedAlways(validated) == TRUE

\* validate_log_entry returned (did not raise)
ValidationPassed(validated) == validated.ok

\* __call__ from its entry to the return of validate_log_entry.
CallBegin(t, i) ==
    /\ phase = "ready"
    /\ pc[t] = "idle"
    /\ calls < MaxCalls
    /\ calls' = calls + 1
    /\ LET event_dict == Inputs[i].event_dict
           name == Inputs[i].name
           call == [NoCall EXCEPT !.input = i, !.event_dict = event_dict,
                                  !.seen = Len(handed)]
       IN
       IF CallGuard
       THEN /\ Return(t, call)
            /\ UNCHANGED <<diag, raised>>
       ELSE IF Get(event_dict, "level", "info") \in NonStrings
       THEN \* .upper() raises AttributeError
            /\ CallExcept
            /\ Return(t, call)
       ELSE LET level == Upper(Get(event_dict, "level", "info"))
                message == Get(event_dict, "event", "")
                x == ExtractFields(event_dict, name)
                validated == ValidateLogEntry(level, message, x.fields)
            IN
            IF ~ValidationPassed(validated)
            THEN /\ CallExcept
                 /\ Return(t, [call EXCEPT !.event_dict = x.event_dict])
            ELSE /\ pc' = [pc EXCEPT ![t] = "validated"]
                 /\ cur' = [cur EXCEPT ![t] =
                              [call EXCEPT !.event_dict = x.event_dict,
                                           !.validated = validated]]
                 /\ UNCHANGED <<passThrough, diag, raised>>
    /\ UNCHANGED <<procVars, clock, pipelineState, queueVars, workerVars,
                   flushReq, okCalls, handed, opHist>>

\* A slip: the timestamp is read from the system clock, which has not
\* advanced since the last record.
CallTimestampFromCoarseClock == IF clock = 0 THEN 1 ELSE clock

\* timestamp_ns = _generate_unique_nanosecond_timestamp()
CallTimestamp == GenerateUniqueNanosecondTimestamp

\* __call__ at its timestamp; ok: the generator returned (did not raise).
CallStamp(t, ok) ==
    /\ pc[t] = "validated"
    /\ IF ok
       THEN /\ clock' = CallTimestamp
            /\ cur' = [cur EXCEPT ![t].ts = CallTimestamp]
            /\ pc' = [pc EXCEPT ![t] = "stamped"]
            /\ UNCHANGED <<passThrough, diag, raised>>
       ELSE /\ CallExcept
            /\ Return(t, cur[t])
            /\ UNCHANGED clock
    /\ UNCHANGED <<procVars, pipelineState, queueVars, workerVars, flushReq,
                   calls, okCalls, handed, opHist>>

\* format_log_entry, then self.sender.add_log_to_queue(log_entry), then
\* return event_dict.
CallEnqueue(t, fmtOk, addOk) ==
    /\ pc[t] = "stamped"
    /\ LET call == cur[t]
           v == call.validated
           log_entry == FormatLogEntry(v.level, v.message, v.fields, call.ts)
       IN
       IF ~fmtOk
       THEN /\ CallExcept
            /\ UNCHANGED <<queueVars, handed, senderOps, okCalls>>
       ELSE IF sender = None
       THEN \* None has no add_log_to_queue: AttributeError
            /\ CallExcept
            /\ UNCHANGED <<queueVars, handed, senderOps, okCalls>>
       ELSE /\ handed' = Append(handed, [ts |-> call.ts, seen |-> call.seen])
            /\ okCalls' = okCalls + (IF InputValid(call.input) THEN 1 ELSE 0)
            /\ senderOps' = TRUE
            /\ IF addOk
               THEN /\ AddLogToQueue(log_entry)
                    /\ UNCHANGED <<diag, raised>>
               ELSE /\ CallExcept
                    /\ UNCHANGED queueVars
    /\ Return(t, cur[t])
    /\ UNCHANGED <<procVars, clock, pipelineState, workerVars, flushReq,
                   calls, flushed, swallowed, closeCalls>>

\* ------------------------------------------- StructlogProcessor.flush/close

\* A slip: flush lets the sender's exception through.
FlushExceptReraise(exc) ==
    /\ raised' = (raised \/ exc)
    /\ UNCHANGED swallowed

\* except Exception: pass   (flush)
FlushExcept(exc) ==
    /\ raised' = raised
    /\ swallowed' = (swallowed \/ exc)

\* StructlogProcessor.flush; exc: sender.flush() raised.
flush(exc) ==
    /\ phase = "ready"
    /\ flushed' = TRUE
    /\ IF sender # None
       THEN /\ senderOps' = TRUE
            /\ SenderFlush
            /\ FlushExcept(exc)
       ELSE /\ exc = FALSE
            /\ UNCHANGED <<senderOps, flushReq, raised, swallowed>>
    /\ UNCHANGED <<procVars, threadVars, pipelineState, queueVars, workerVars,
                   callHist, closeCalls>>

\* A slip: close lets the sender's exception through.
CloseExceptReraise(exc) ==
    /\ raised' = (raised \/ exc)
    /\ UNCHANGED swallowed

\* except Exception: pass   (close)
CloseExcept(exc) ==
    /\ raised' = raised
    /\ swallowed' = (swallowed \/ exc)

\* A slip: close flushes the sender instead of shutting it down.
CloseSenderFlush ==
    /\ SenderFlush
    /\ UNCHANGED pipelineState

\* self.sender.shutdown()
CloseSender ==
    /\ SenderShutdown
    /\ UNCHANGED flushReq

\* StructlogProcessor.close; exc: sender.shutdown() raised after requesting
\* the shutdown.
close(exc) ==
    /\ phase = "ready"
    /\ closeCalls' = IF closeCalls < 2 THEN closeCalls + 1 ELSE closeCalls
    /\ IF sender # None
       THEN /\ senderOps' = TRUE
            /\ CloseSender
            /\ CloseExcept(exc)
       ELSE /\ exc = FALSE
            /\ UNCHANGED <<senderOps, pipelineState, flushReq, raised, swallowed>>
    /\ UNCHANGED <<procVars, threadVars, queueVars, workerVars, callHist,
                   flushed>>

\* ------------------------------------------------------------ behaviours

Next ==
    \/ \E p \in ProjectIds, h \in Hosts, k \in ApiKeys : Construct(p, h, k)
    \/ \E t \in Threads, i \in DOMAIN Inputs : CallBegin(t, i)
    \/ \E t \in Threads, ok \in BOOLEAN : CallStamp(t, ok)
    \/ \E t \in Threads, fmtOk \in BOOLEAN, addOk \in BOOLEAN :
          CallEnqueue(t, fmtOk, addOk)
    \/ \E exc \in BOOLEAN : flush(exc)
    \/ \E exc \in BOOLEAN : close(exc)
    \/ WorkerCut
    \/ \E result \in TransportResults : WorkerSend(result)
    \/ WorkerStop

Spec == Init /\ [][Next]_vars

\* One caller at a time: every call returns before the next one starts.
SeqNext ==
    \/ \E p \in ProjectIds, h \in Hosts, k \in ApiKeys : Construct(p, h, k)
    \/ \E i \in DOMAIN Inputs : CallBegin("t1", i)
    \/ \E ok \in BOOLEAN : CallStamp("t1", ok)
    \/ \E fmtOk \in BOOLEAN, addOk \in BOOLEAN : CallEnqueue("t1", fmtOk, addOk)
    \/ \E exc \in BOOLEAN : flush(exc)
    \/ \E exc \in BOOLEAN : close(exc)
    \/ WorkerCut
    \/ \E result \in TransportResults : WorkerSend(result)
    \/ WorkerStop

SeqSpec == Init /\ [][SeqNext]_vars

ValidInputs == {i \in DOMAIN Inputs : InputValid(i)}

\* Concurrent callers of an Active processor: valid events, no step raises,
\* the transport is reachable.
ConcNext ==
    \/ \E k \in ApiKeys :
          Construct("12345678-1234-1234-1234-123456789012",
                    "http://localhost:4005", k)
    \/ \E t \in Threads, i \in ValidInputs : CallBegin(t, i)
    \/ \E t \in Threads : CallStamp(t, TRUE)
    \/ \E t \in Threads : CallEnqueue(t, TRUE, TRUE)
    \/ close(FALSE)
    \/ WorkerCut
    \/ WorkerSend("success")
    \/ WorkerStop

ConcSpec == Init /\ [][ConcNext]_vars

\* The pipeline of an Active processor with its worker scheduled fairly.
LiveNext ==
    \/ Construct("12345678-1234-1234-1234-123456789012",
                 "http://localhost:4005", "test_api_key")
    \/ \E i \in ValidInputs : CallBegin("t1", i)
    \/ CallStamp("t1", TRUE)
    \/ CallEnqueue("t1", TRUE, TRUE)
    \/ flush(FALSE)
    \/ close(FALSE)
    \/ WorkerCut
    \/ \E result \in TransportResults : WorkerSend(result)
    \/ WorkerStop

LiveSpec ==
    /\ Init
    /\ [][LiveNext]_vars
    /\ WF_vars(WorkerCut)
    /\ WF_vars(\E result \in TransportResults : WorkerSend(result))
    /\ WF_vars(WorkerStop)

\* ---------------------------------------------------------------- claims

Range(f) == {f[k] : k \in DOMAIN f}

InProgress == Cardinality({t \in Threads : pc[t] # "idle"})

ConstructedDisabled == args.project_id = None \/ args.host = None

\* C1: a constructed processor is disabled exactly when project_id or host was
\* None, whatever api_key was; a disabled one was built without raising, has
\* sender None and no LogSender or worker; an enabled one has exactly one
\* LogSender, built from a configuration that passed validation.
C1_DisabledIffMissingCredentials ==
    /\ phase = "failed" => ~ConstructedDisabled
    /\ phase = "ready" =>
         /\ disabled = ConstructedDisabled
         /\ disabled =>
              /\ sender = None
              /\ sendersCreated = 0
              /\ pipelineState = "Uninitialized"
         /\ ~disabled =>
              /\ sender = "LogSender"
              /\ sendersCreated = 1
              /\ ValidateConfig(args.project_id, args.host, args.api_key).ok

\* Only the host is missing, an api_key is given: the processor is disabled.
C1_Witness ==
    /\ phase = "ready"
    /\ disabled
    /\ args.project_id # None
    /\ args.host = None
    /\ args.api_key # None

\* C2: a processor constructed without credentials stays disabled with sender
\* None whatever is called on it: nothing is enqueued, no sender method and no
\* transport call is made, no call is left in progress, nothing is printed or
\* raised.
C2_DisabledIsInert ==
    (phase = "ready" /\ ConstructedDisabled) =>
        /\ disabled
        /\ sender = None
        /\ pipelineState = "Uninitialized"
        /\ queue = <<>> /\ inflight = <<>> /\ delivered = <<>>
        /\ handed = <<>> /\ enqueued = <<>>
        /\ ~senderOps
        /\ ~netCalls
        /\ \A t \in Threads : pc[t] = "idle"
        /\ diag = 0
        /\ ~raised

\* __call__, flush and close have all been invoked on a disabled processor.
C2_Witness ==
    /\ disabled
    /\ calls >= 2
    /\ flushed
    /\ closeCalls = 2

\* C3: no public operation raises to its caller, whichever step fails.
C3_NoThrow == ~raised

\* Steps of __call__ raised, the sender raised in flush or close, and records
\* were still handed to the sender.
C3_Witness ==
    /\ ~disabled
    /\ diag >= 2
    /\ swallowed
    /\ closeCalls >= 1
    /\ flushed
    /\ handed # <<>>

NoDuplicates(seq) == \A i, j \in DOMAIN seq : i # j => seq[i] # seq[j]

\* The step is the second close() of the processor.
SecondClose == closeCalls = 1 /\ closeCalls' = 2

\* C4: the second close changes nothing but the count of close calls (no
\* drain, no send, no worker stop, no exception), and no record is delivered
\* twice.
C4_ShutdownIdempotent ==
    /\ [](NoDuplicates(delivered))
    /\ [][SecondClose =>
            UNCHANGED <<pipelineState, queue, inflight, attempts, flushReq,
                        delivered, droppedCount, failedCount, netCalls,
                        enqueued, lost, raised, disabled, sender>>]_vars

\* close was called twice on an Active processor whose pipeline delivered
\* records and stopped.
C4_Witness ==
    /\ ~disabled
    /\ closeCalls = 2
    /\ pipelineState = "Stopped"
    /\ delivered # <<>>

Closed == sender # None /\ pipelineState # "Running"

\* C5 as stated: once the pipeline has left Running, no __call__ hands a record
\* to the sender.
C5_NoHandOverAfterClose == [][Closed => handed' = handed]_vars

\* C5, amended: after close() on an Active processor the pipeline is not
\* Running and never is again; a __call__ still hands its record to the
\* sender, which does not accept it: the queue only shrinks and nothing more
\* counts as enqueued.
C5_NoAcceptAfterClose ==
    /\ []((closeCalls >= 1 /\ sender # None) => pipelineState # "Running")
    /\ [][Closed =>
            /\ Closed'
            /\ enqueued' = enqueued
            /\ Len(queue') <= Len(queue)
            /\ queue' = SubSeq(queue, Len(queue) - Len(queue') + 1, Len(queue))]_vars

\* A record was handed to the sender after close(), and was not accepted.
C5_Witness ==
    /\ closeCalls >= 1
    /\ Closed
    /\ Len(handed) > Len(enqueued)
    /\ enqueued # <<>>

\* C6: on an Active processor add_log_to_queue is called once per event whose
\* extraction, validation, timestamp and formatting succeeded and never for
\* another; every other finished call printed a diagnostic; nothing is raised.
C6_DropOnlyTheFailingRecord ==
    (phase = "ready" /\ ~disabled) =>
        /\ Len(handed) = okCalls
        /\ diag >= calls - okCalls - InProgress
        /\ diag <= calls
        /\ ~raised

\* Three calls: two valid events handed over, one dropped with a diagnostic.
C6_Witness ==
    /\ ~disabled
    /\ calls = 3
    /\ InProgress = 0
    /\ okCalls = 2
    /\ Len(enqueued) = 2
    /\ diag = 1

Timestamps(seq) == [k \in DOMAIN seq |-> seq[k].timestamp]

\* C7: the queue never holds more than Capacity records; it holds the most
\* recently enqueued ones, in enqueue order; every record that left it was
\* evicted and counted, or drained by the worker; with nothing drained and more
\* than Capacity enqueued it holds exactly the last Capacity of them.
C7_QueueBoundedDropOldest ==
    LET n == Len(enqueued)
        k == Len(queue)
        drained == Len(inflight) + Len(delivered) + failedCount
    IN /\ k <= Capacity
       /\ k <= n
       /\ Timestamps(queue) = SubSeq(enqueued, n - k + 1, n)
       /\ n = k + droppedCount + drained
       /\ (drained = 0 /\ n > Capacity) =>
             /\ k = Capacity
             /\ droppedCount = n - Capacity

\* More records than Capacity were enqueued before the worker took any.
C7_Witness ==
    /\ Len(enqueued) > Capacity
    /\ droppedCount >= 1
    /\ Len(queue) = Capacity
    /\ inflight = <<>>
    /\ ~netCalls

C9_PassThrough ==
    /\ passThrough
    /\ \A t \in Threads :
          pc[t] # "idle" => cur[t].event_dict = Inputs[cur[t].input].event_dict

\* A call with a logger name returned after its record, carrying logger_name
\* among its fields, was queued; another call's event was dropped.
C9_Witness ==
    /\ InProgress = 0
    /\ diag >= 1
    /\ \E k \in DOMAIN queue :
          /\ "logger_name" \in DOMAIN queue[k].fields
          /\ queue[k].fields.logger_name = "test_logger"

\* C10 as stated: add_log_to_queue is called in increasing timestamp order, so
\* the queue is increasing in timestamp.
C10_QueueInTimestampOrder ==
    /\ \A i, j \in DOMAIN handed : i < j => handed[i].ts < handed[j].ts
    /\ \A i, j \in DOMAIN queue : i < j => queue[i].timestamp < queue[j].timestamp

\* C10, amended: timestamps are unique; a record is handed over after, and
\* with a larger timestamp than, every record that had been handed over when
\* its __call__ began; the queue keeps the hand-over order.  Overlapping calls
\* may hand over out of timestamp order.
C10_OrderedWhenNotOverlapping ==
    /\ NoDuplicates([k \in DOMAIN handed |-> handed[k].ts])
    /\ \A j \in DOMAIN handed :
          /\ handed[j].seen < j
          /\ \A i \in 1..handed[j].seen : handed[i].ts < handed[j].ts
    /\ \A a, b \in DOMAIN queue :
          a < b => \E i, j \in DOMAIN handed :
                      /\ i < j
                      /\ handed[i].ts = queue[a].timestamp
                      /\ handed[j].ts = queue[b].timestamp

\* A call that began after another's hand-over follows it in the queue, with a
\* larger timestamp.
C10_Witness ==
    /\ Len(queue) = 2
    /\ \E j \in DOMAIN handed :
          /\ handed[j].seen >= 1
          /\ handed[j].ts = queue[2].timestamp
          /\ handed[1].ts = queue[1].timestamp

=============================================================================
